---- MODULE Spec2Model ----
(***************************************************************************)
(* Model of ai_response_tools/core.py: the tolerant JSON extraction        *)
(* (fuzzy_parse_json), the container traversal (_iter_over_all_items),     *)
(* the schema matching of response_parsing, the finish-reason handling of  *)
(* chatgpt_raw_response_parsing and the per-prompt loop of query_lbgpt.    *)
(*                                                                         *)
(* A text is a sequence of tokens. "[", "]", "{", "}", "," and ":" are the *)
(* JSON punctuation, "1" and "2" are number literals, "a", "b" and "c"     *)
(* stand for the double-quoted strings "a", "b", "c", and "w" is a bare    *)
(* (unquoted) word, as found in prose around a literal.                    *)
(***************************************************************************)
EXTENDS Integers, Sequences, FiniteSets, TLC

\* ------------------------------------------------------------------ bounds
\* Parsed values drawn as inputs have at most MaxNodes nodes.
MaxNodes == 3
\* Arbitrary token sequences handed to fuzzy_parse_json have at most MaxLen tokens.
MaxLen == 4
\* Arbitrary token sequences handed to response_parsing have at most MaxJunk tokens.
MaxJunk == 1
\* A batch handed to query_lbgpt has at most MaxPrompts prompts.
MaxPrompts == 3

\* ------------------------------------------------------------------ values
NumToks == {"1", "2"}
StrToks == {"a", "b", "c"}
WordToks == {"w"}

\* A Python value: int, str, list or dict (a dict keeps its keys in insertion order).
Num(n) == [k |-> "int", v |-> n, keys |-> <<>>, c |-> <<>>]
Str(s) == [k |-> "str", v |-> s, keys |-> <<>>, c |-> <<>>]
List(items) == [k |-> "list", v |-> "", keys |-> <<>>, c |-> items]
Dict(ks, vals) == [k |-> "dict", v |-> "", keys |-> ks, c |-> vals]
\* Python's None, and the slot of a value that does not exist (yet).
NoneValue == [k |-> "None", v |-> "", keys |-> <<>>, c |-> <<>>]

\* isinstance(d, (list, dict))
IsContainer(d) == d.k \in {"list", "dict"}

Range(s) == {s[i] : i \in 1..Len(s)}

\* d[key] = value on a dict under construction: a new key is appended, a
\* repeated key keeps its position and takes the new value.
DictSet(ks, vals, key, value) ==
  IF key \in Range(ks)
    THEN [ks |-> ks,
          vals |-> [i \in 1..Len(vals) |-> IF ks[i] = key THEN value ELSE vals[i]]]
    ELSE [ks |-> Append(ks, key), vals |-> Append(vals, value)]

\* ------------------------------------------------------------------ parsing
ParseFail == [ok |-> FALSE, val |-> NoneValue, pos |-> 0]
ParseOk(value, next) == [ok |-> TRUE, val |-> value, pos |-> next]

RECURSIVE ParseValue(_, _, _)
RECURSIVE ParseElems(_, _, _, _)
RECURSIVE ParseMembers(_, _, _, _, _)

\* One JSON value starting at token i. lenient = FALSE is the strict grammar of
\* json.loads; lenient = TRUE adds the relaxations of the JavaScript-literal
\* scanner: bare words as strings and keys, and a trailing comma.
ParseValue(toks, i, lenient) ==
  IF i > Len(toks) THEN ParseFail
  ELSE LET t == toks[i] IN
    CASE t \in NumToks -> ParseOk(Num(t), i + 1)
      [] t \in StrToks -> ParseOk(Str(t), i + 1)
      [] t \in WordToks -> IF lenient THEN ParseOk(Str(t), i + 1) ELSE ParseFail
      [] t = "[" -> ParseElems(toks, i + 1, lenient, <<>>)
      [] t = "{" -> ParseMembers(toks, i + 1, lenient, <<>>, <<>>)
      [] OTHER -> ParseFail

\* The elements of an array, from token i (the start of an element, or "]").
ParseElems(toks, i, lenient, acc) ==
  IF i > Len(toks) THEN ParseFail
  ELSE IF toks[i] = "]"
    THEN IF acc = <<>> \/ lenient THEN ParseOk(List(acc), i + 1) ELSE ParseFail
  ELSE LET r == ParseValue(toks, i, lenient) IN
    IF ~r.ok \/ r.pos > Len(toks) THEN ParseFail
    ELSE IF toks[r.pos] = "]" THEN ParseOk(List(Append(acc, r.val)), r.pos + 1)
    ELSE IF toks[r.pos] = "," THEN ParseElems(toks, r.pos + 1, lenient, Append(acc, r.val))
    ELSE ParseFail

\* The members of an object, from token i (the start of a key, or "}").
ParseMembers(toks, i, lenient, ks, vals) ==
  IF i > Len(toks) THEN ParseFail
  ELSE IF toks[i] = "}"
    THEN IF ks = <<>> \/ lenient THEN ParseOk(Dict(ks, vals), i + 1) ELSE ParseFail
  ELSE IF ~(toks[i] \in StrToks \/ (lenient /\ toks[i] \in WordToks)) THEN ParseFail
  ELSE IF i + 1 > Len(toks) \/ toks[i + 1] # ":" THEN ParseFail
  ELSE LET r == ParseValue(toks, i + 2, lenient) IN
    IF ~r.ok \/ r.pos > Len(toks) THEN ParseFail
    ELSE LET d == DictSet(ks, vals, toks[i], r.val) IN
      IF toks[r.pos] = "}" THEN ParseOk(Dict(d.ks, d.vals), r.pos + 1)
      ELSE IF toks[r.pos] = "," THEN ParseMembers(toks, r.pos + 1, lenient, d.ks, d.vals)
      ELSE ParseFail

\* json.loads(json_string): the whole text is one strict JSON value, or
\* JSONDecodeError (ok = FALSE).
JsonLoads(json_string) ==
  LET r == ParseValue(json_string, 1, FALSE) IN
  IF r.ok /\ r.pos = Len(json_string) + 1 THEN r ELSE ParseFail

\* Position of the first "{" or "[" of the text, 0 when there is none.
FirstOpen(toks) ==
  LET opens == {i \in 1..Len(toks) : toks[i] \in {"[", "{"}} IN
  IF opens = {} THEN 0 ELSE CHOOSE i \in opens : \A j \in opens : i <= j

\* parse_js_object(json_string): skips to the first "{" or "[", decodes the
\* literal that starts there and ignores what follows it; ValueError
\* (ok = FALSE) when there is no literal or it is malformed.
ParseJsObject(json_string) ==
  LET i == FirstOpen(json_string) IN
  IF i = 0 THEN ParseFail ELSE ParseValue(json_string, i, TRUE)

\* json.dumps restricted to the token alphabet: the strict JSON text of a value.
RECURSIVE Dumps(_)
RECURSIVE DumpElems(_, _)
RECURSIVE DumpMembers(_, _, _)
Dumps(d) ==
  CASE d.k = "list" -> <<"[">> \o DumpElems(d.c, 1) \o <<"]">>
    [] d.k = "dict" -> <<"{">> \o DumpMembers(d.keys, d.c, 1) \o <<"}">>
    [] OTHER -> <<d.v>>
DumpElems(items, i) ==
  IF i > Len(items) THEN <<>>
  ELSE (IF i > 1 THEN <<",">> ELSE <<>>) \o Dumps(items[i]) \o DumpElems(items, i + 1)
DumpMembers(ks, vals, i) ==
  IF i > Len(ks) THEN <<>>
  ELSE (IF i > 1 THEN <<",">> ELSE <<>>) \o <<ks[i], ":">> \o Dumps(vals[i])
       \o DumpMembers(ks, vals, i + 1)

\* ------------------------------------------------------------------ traversal
\* A node of a value is named by its path: the child indices from the root.
RECURSIVE NodeAt(_, _)
NodeAt(d, path) ==
  IF path = <<>> THEN d ELSE NodeAt(d.c[Head(path)], Tail(path))

RECURSIVE IterChildren(_, _)
RECURSIVE IterOverAllItems(_)
\* Mutant of IterOverAllItems: the children are yielded before their parent.
IterOverAllItemsChildrenFirst(d) ==
  IF IsContainer(d)
    THEN IterChildren(d, 1) \o <<<<>>>>
    ELSE <<>>

\* _iter_over_all_items(d), as the paths of the yielded nodes in yield order.
IterOverAllItems(d) ==
  IF IsContainer(d)
    THEN <<<<>>>> \o IterChildren(d, 1)
    ELSE <<>>
\* for item in d / for value in d.values(): yield from _iter_over_all_items(item)
IterChildren(d, i) ==
  IF i > Len(d.c) THEN <<>>
  ELSE LET sub == IterOverAllItems(d.c[i]) IN
       [n \in 1..Len(sub) |-> <<i>> \o sub[n]] \o IterChildren(d, i + 1)

\* ------------------------------------------------------------------ schemas
\* A draft-7 schema with the keywords type, required and properties (each
\* property constrained by a type); type "any" is an absent type keyword.
Schema(type, required, props) == [type |-> type, required |-> required, props |-> props]
\* {}
SchemaAny == Schema("any", {}, <<>>)
\* {"type": "object", "required": ["b"], "properties": {"b": {"type": "integer"}}}
SchemaB == Schema("object", {"b"}, <<<<"b", "integer">>>>)
\* response_schema = None / element_schema = None
NoSchema == Schema("None", {}, <<>>)

JsonType(d) ==
  CASE d.k = "int" -> "integer"
    [] d.k = "str" -> "string"
    [] d.k = "list" -> "array"
    [] d.k = "dict" -> "object"
    [] OTHER -> "null"

\* Draft7Validator(schema).is_valid(d)
IsValid(schema, d) ==
  /\ schema.type = "any" \/ JsonType(d) = schema.type
  /\ d.k = "dict" =>
       /\ schema.required \subseteq Range(d.keys)
       /\ \A n \in 1..Len(schema.props) : \A i \in 1..Len(d.keys) :
            d.keys[i] = schema.props[n][1] => JsonType(d.c[i]) = schema.props[n][2]

\* ------------------------------------------------------------------ inputs
Scalars == {Num("1"), Str("a")}
Keys == {"a", "b"}
\* The key orders of a dict with n entries.
KeySeqs(n) == {ks \in [1..n -> Keys] : \A x, y \in 1..n : x # y => ks[x] # ks[y]}

RECURSIVE ValuesOfSize(_)
RECURSIVE Forests(_, _)
\* The values with exactly n nodes.
ValuesOfSize(n) ==
  IF n = 1 THEN Scalars \cup {List(<<>>), Dict(<<>>, <<>>)}
  ELSE UNION {{List(f) : f \in Forests(n - 1, w)}
              \cup {Dict(ks, f) : ks \in KeySeqs(w), f \in Forests(n - 1, w)}
              : w \in 1..(n - 1)}
\* The sequences of w values with n nodes in total.
Forests(n, w) ==
  IF w = 0 THEN (IF n = 0 THEN {<<>>} ELSE {})
  ELSE UNION {{<<t>> \o f : t \in ValuesOfSize(m), f \in Forests(n - m, w - 1)}
              : m \in 1..(n - w + 1)}
ValuesUpTo(n) == UNION {ValuesOfSize(m) : m \in 1..n}

\* {"a": {"b": 1}, "c": [{"b": 2}]}
ExampleValue ==
  Dict(<<"a", "c">>,
       <<Dict(<<"b">>, <<Num("1")>>), List(<<Dict(<<"b">>, <<Num("2")>>)>>)>>)
\* [[], {"b": 1}, {"b": "a"}, [{"b": 1}]]
ExampleList ==
  List(<<List(<<>>), Dict(<<"b">>, <<Num("1")>>), Dict(<<"b">>, <<Str("a")>>),
         List(<<Dict(<<"b">>, <<Num("1")>>)>>)>>)

Values == ValuesUpTo(MaxNodes) \cup {ExampleValue, ExampleList}
Literals(n) == {t \in ValuesUpTo(n) : IsContainer(t)}

Alphabet == {"[", "]", "{", "}", ",", ":", "1", "a", "w"}
TokenSeqs(n) == UNION {[1..m -> Alphabet] : m \in 0..n}

\* A text with the literals written into it, in order of appearance.
Input(text, lits) == [text |-> text, lits |-> lits]
LitsOf(t) == IF IsContainer(t) THEN <<t>> ELSE <<>>

\* "Sure, here you go: <literal> Thanks!"
Before == {<<>>, <<"w", ",", "w", ":">>}
Between == {<<>>, <<"w">>, <<",">>}
After == {<<>>, <<"w">>}

\* The texts handed to response_parsing.
ResponseTexts ==
  {Input(Dumps(t), LitsOf(t)) : t \in Values}
  \cup {Input(<<"w", ":">> \o Dumps(t) \o <<"w">>, LitsOf(t)) : t \in Values}
  \cup {Input(s, <<>>) : s \in TokenSeqs(MaxJunk)}

Schemas == {SchemaAny, SchemaB}

\* A str, a ChatCompletion (choices[0].finish_reason, choices[0].message.content)
\* or an object of any other type.
StrResponse(text) == [kind |-> "str", finish_reason |-> "", content |-> text]
ChatCompletion(finish_reason, content) ==
  [kind |-> "ChatCompletion", finish_reason |-> finish_reason, content |-> content]
OtherResponse == [kind |-> "other", finish_reason |-> "", content |-> <<>>]

\* ------------------------------------------------------------------ state
VARIABLES
  response,             \* response_parsing: the response argument
  response_schema,      \* the response_schema argument (NoSchema for None)
  element_schema,       \* the element_schema argument (NoSchema for None)
  raise_exception_on_irregular_finish,
  pc,                   \* position in response_parsing / fuzzy_parse_json
  txt,                  \* the text handed to fuzzy_parse_json
  fuzzy_parsed_object,  \* the value fuzzy_parse_json returned
  iter,                 \* _iter_over_all_items generator: paths not yet yielded
  yielded,              \* paths the generator has yielded so far
  validated,            \* paths validator.is_valid has been called on
  res,                  \* the list built in all-matches mode
  returned,             \* what the call returned
  raised,               \* the exception the call raised ("" for none)
  calls,                \* the decoders called by fuzzy_parse_json, in order
  literals,             \* the literals written into the input text
  user_prompts,         \* query_lbgpt: the user_prompts argument
  image_urls,           \* the image_urls argument
  client_ok,            \* whether constructing the lbgpt client succeeds
  qpc,                  \* position in query_lbgpt
  i,                    \* loop index of query_lbgpt
  responses,            \* the responses list of query_lbgpt
  failures,             \* loop indices whose try block raised
  qraised               \* the exception query_lbgpt raised ("" for none)

parsingVars ==
  <<response, response_schema, element_schema, raise_exception_on_irregular_finish,
    pc, txt, fuzzy_parsed_object, iter, yielded, validated, res, returned, raised,
    calls, literals>>
queryVars == <<user_prompts, image_urls, client_ok, qpc, i, responses, failures, qraised>>
vars == <<parsingVars, queryVars>>

IrregularFinish == "ValueError: Unexpected finish reason"
UnsupportedResponseType == "NotImplementedError: Cannot parse response of type"
ConflictingSchemaSpecification == "ValueError: Cannot specify both response_schema and element_schema"
UnparsableResponse == "ValueError: parse_js_object"

\* What a call has returned: nothing yet, None, one value, or a list of values.
Pending == [kind |-> "pending", val |-> NoneValue, items |-> <<>>]
ReturnNone == [kind |-> "None", val |-> NoneValue, items |-> <<>>]
ReturnValue(d) == [kind |-> "value", val |-> d, items |-> <<>>]
ReturnList(ds) == [kind |-> "list", val |-> NoneValue, items |-> ds]

\* ------------------------------------------------------------------ response_parsing
\* Mutant of ChatgptRawResponseParsing: without the flag, an irregular finish
\* is only reported and the content is returned all the same.
ChatgptRawResponseParsingNoReturn(resp, flag) ==
  IF resp.finish_reason # "stop" /\ flag
    THEN [raised |-> IrregularFinish, none |-> FALSE, content |-> <<>>]
    ELSE [raised |-> "", none |-> FALSE, content |-> resp.content]

\* chatgpt_raw_response_parsing(response, raise_exception_on_irregular_finish)
ChatgptRawResponseParsing(resp, flag) ==
  IF resp.finish_reason # "stop"
    THEN IF flag
      THEN [raised |-> IrregularFinish, none |-> FALSE, content |-> <<>>]
      ELSE [raised |-> "", none |-> TRUE, content |-> <<>>]
    ELSE [raised |-> "", none |-> FALSE, content |-> resp.content]

Finish(ret, exc) ==
  /\ pc' = "done"
  /\ returned' = ret
  /\ raised' = exc

\* The isinstance dispatch that opens response_parsing.
Normalize ==
  /\ pc = "call"
  /\ UNCHANGED <<response, response_schema, element_schema,
                 raise_exception_on_irregular_finish, fuzzy_parsed_object, iter,
                 yielded, validated, res, calls, literals, queryVars>>
  /\ CASE response.kind = "ChatCompletion" ->
            LET r == ChatgptRawResponseParsing(response, raise_exception_on_irregular_finish) IN
            IF r.raised # "" THEN Finish(Pending, r.raised) /\ UNCHANGED txt
            ELSE IF r.none THEN Finish(ReturnNone, "") /\ UNCHANGED txt
            ELSE /\ txt' = r.content
                 /\ pc' = "loads"
                 /\ UNCHANGED <<returned, raised>>
       [] response.kind = "str" ->
            /\ txt' = response.content
            /\ pc' = "loads"
            /\ UNCHANGED <<returned, raised>>
       [] OTHER -> Finish(Pending, UnsupportedResponseType) /\ UNCHANGED txt

\* Mutant of StrictDecode: the strict result is discarded and the fallback
\* always runs.
StrictDecodeDiscarded ==
  /\ pc = "loads"
  /\ calls' = Append(calls, "json.loads")
  /\ pc' = "except"
  /\ UNCHANGED <<response, response_schema, element_schema,
                 raise_exception_on_irregular_finish, txt, fuzzy_parsed_object, iter,
                 yielded, validated, res, returned, raised, literals, queryVars>>

\* fuzzy_parse_json, the try block: json.loads(json_string).
StrictDecode ==
  /\ pc = "loads"
  /\ calls' = Append(calls, "json.loads")
  /\ LET r == JsonLoads(txt) IN
     IF r.ok
       THEN /\ fuzzy_parsed_object' = r.val
            /\ pc' = "schemas"
       ELSE /\ pc' = "except"
            /\ UNCHANGED fuzzy_parsed_object
  /\ UNCHANGED <<response, response_schema, element_schema,
                 raise_exception_on_irregular_finish, txt, iter, yielded, validated,
                 res, returned, raised, literals, queryVars>>

\* Position of the last "{" or "[" of the text, 0 when there is none.
LastOpen(toks) ==
  LET opens == {n \in 1..Len(toks) : toks[n] \in {"[", "{"}} IN
  IF opens = {} THEN 0 ELSE CHOOSE n \in opens : \A m \in opens : m <= n

\* Mutant of Fallback: the literal that opens last in the text is decoded.
FallbackLastLiteral ==
  /\ pc = "except"
  /\ calls' = Append(calls, "parse_js_object")
  /\ LET r == IF LastOpen(txt) = 0 THEN ParseFail
                                   ELSE ParseValue(txt, LastOpen(txt), TRUE) IN
     IF r.ok
       THEN /\ fuzzy_parsed_object' = r.val
            /\ pc' = "schemas"
            /\ UNCHANGED <<returned, raised>>
       ELSE /\ Finish(Pending, UnparsableResponse)
            /\ UNCHANGED fuzzy_parsed_object
  /\ UNCHANGED <<response, response_schema, element_schema,
                 raise_exception_on_irregular_finish, txt, iter, yielded, validated,
                 res, literals, queryVars>>

\* Mutant of Fallback: a failure of the fallback is swallowed and None returned.
FallbackSwallows ==
  /\ pc = "except"
  /\ calls' = Append(calls, "parse_js_object")
  /\ LET r == ParseJsObject(txt) IN
     IF r.ok
       THEN /\ fuzzy_parsed_object' = r.val
            /\ pc' = "schemas"
            /\ UNCHANGED <<returned, raised>>
       ELSE /\ Finish(ReturnNone, "")
            /\ UNCHANGED fuzzy_parsed_object
  /\ UNCHANGED <<response, response_schema, element_schema,
                 raise_exception_on_irregular_finish, txt, iter, yielded, validated,
                 res, literals, queryVars>>

\* fuzzy_parse_json, the except JSONDecodeError block: parse_js_object(json_string).
Fallback ==
  /\ pc = "except"
  /\ calls' = Append(calls, "parse_js_object")
  /\ LET r == ParseJsObject(txt) IN
     IF r.ok
       THEN /\ fuzzy_parsed_object' = r.val
            /\ pc' = "schemas"
            /\ UNCHANGED <<returned, raised>>
       ELSE /\ Finish(Pending, UnparsableResponse)
            /\ UNCHANGED fuzzy_parsed_object
  /\ UNCHANGED <<response, response_schema, element_schema,
                 raise_exception_on_irregular_finish, txt, iter, yielded, validated,
                 res, literals, queryVars>>

\* Mutant of SelectMode: the final else branch is missing, so that a call
\* without a schema falls off the end of the function.
SelectModeNoElse ==
  /\ pc = "schemas"
  /\ UNCHANGED <<response, response_schema, element_schema,
                 raise_exception_on_irregular_finish, txt, fuzzy_parsed_object,
                 yielded, validated, res, calls, literals, queryVars>>
  /\ IF response_schema # NoSchema /\ element_schema # NoSchema
       THEN Finish(Pending, ConflictingSchemaSpecification) /\ UNCHANGED iter
     ELSE IF response_schema # NoSchema
       THEN /\ iter' = IterOverAllItems(fuzzy_parsed_object)
            /\ pc' = "first"
            /\ UNCHANGED <<returned, raised>>
     ELSE IF element_schema # NoSchema
       THEN /\ iter' = IterOverAllItems(fuzzy_parsed_object)
            /\ pc' = "all"
            /\ UNCHANGED <<returned, raised>>
     ELSE Finish(ReturnNone, "") /\ UNCHANGED iter

\* The if/elif chain on the two schemas that follows the parse.
SelectMode ==
  /\ pc = "schemas"
  /\ UNCHANGED <<response, response_schema, element_schema,
                 raise_exception_on_irregular_finish, txt, fuzzy_parsed_object,
                 yielded, validated, res, calls, literals, queryVars>>
  /\ IF response_schema # NoSchema /\ element_schema # NoSchema
       THEN Finish(Pending, ConflictingSchemaSpecification) /\ UNCHANGED iter
     ELSE IF response_schema # NoSchema
       THEN /\ iter' = IterOverAllItems(fuzzy_parsed_object)
            /\ pc' = "first"
            /\ UNCHANGED <<returned, raised>>
     ELSE IF element_schema # NoSchema
       THEN /\ iter' = IterOverAllItems(fuzzy_parsed_object)
            /\ pc' = "all"
            /\ UNCHANGED <<returned, raised>>
     ELSE Finish(ReturnValue(fuzzy_parsed_object), "") /\ UNCHANGED iter

\* Mutant of FirstMatchStep: a match is remembered instead of returned, so
\* that the loop runs on and the last match wins.
FirstMatchStepLastWins ==
  /\ pc = "first"
  /\ UNCHANGED <<response, response_schema, element_schema,
                 raise_exception_on_irregular_finish, txt, fuzzy_parsed_object,
                 res, calls, literals, queryVars>>
  /\ IF iter = <<>>
       THEN /\ Finish(IF returned = Pending THEN ReturnNone ELSE returned, "")
            /\ UNCHANGED <<iter, yielded, validated>>
       ELSE LET ppjo == NodeAt(fuzzy_parsed_object, Head(iter)) IN
            /\ iter' = Tail(iter)
            /\ yielded' = Append(yielded, Head(iter))
            /\ validated' = Append(validated, Head(iter))
            /\ returned' = IF IsValid(response_schema, ppjo)
                             THEN ReturnValue(ppjo) ELSE returned
            /\ UNCHANGED <<pc, raised>>

\* One turn of the first-match loop: the next node is validated and returned
\* when valid; the function falls off its end (None) when the generator is spent.
FirstMatchStep ==
  /\ pc = "first"
  /\ UNCHANGED <<response, response_schema, element_schema,
                 raise_exception_on_irregular_finish, txt, fuzzy_parsed_object,
                 res, calls, literals, queryVars>>
  /\ IF iter = <<>>
       THEN Finish(ReturnNone, "") /\ UNCHANGED <<iter, yielded, validated>>
       ELSE LET ppjo == NodeAt(fuzzy_parsed_object, Head(iter)) IN
            /\ iter' = Tail(iter)
            /\ yielded' = Append(yielded, Head(iter))
            /\ validated' = Append(validated, Head(iter))
            /\ IF IsValid(response_schema, ppjo)
                 THEN Finish(ReturnValue(ppjo), "")
                 ELSE UNCHANGED <<pc, returned, raised>>

\* Mutant of AllMatchesStep: a node equal to one already collected is skipped.
AllMatchesStepDistinct ==
  /\ pc = "all"
  /\ UNCHANGED <<response, response_schema, element_schema,
                 raise_exception_on_irregular_finish, txt, fuzzy_parsed_object,
                 calls, literals, queryVars>>
  /\ IF iter = <<>>
       THEN Finish(ReturnList(res), "") /\ UNCHANGED <<iter, yielded, validated, res>>
       ELSE LET ppjo == NodeAt(fuzzy_parsed_object, Head(iter)) IN
            /\ iter' = Tail(iter)
            /\ yielded' = Append(yielded, Head(iter))
            /\ validated' = Append(validated, Head(iter))
            /\ res' = IF IsValid(element_schema, ppjo) /\ ppjo \notin Range(res)
                        THEN Append(res, ppjo) ELSE res
            /\ UNCHANGED <<pc, returned, raised>>

\* One turn of the all-matches loop: the next node is validated and appended
\* when valid; res is returned when the generator is spent.
AllMatchesStep ==
  /\ pc = "all"
  /\ UNCHANGED <<response, response_schema, element_schema,
                 raise_exception_on_irregular_finish, txt, fuzzy_parsed_object,
                 calls, literals, queryVars>>
  /\ IF iter = <<>>
       THEN Finish(ReturnList(res), "") /\ UNCHANGED <<iter, yielded, validated, res>>
       ELSE LET ppjo == NodeAt(fuzzy_parsed_object, Head(iter)) IN
            /\ iter' = Tail(iter)
            /\ yielded' = Append(yielded, Head(iter))
            /\ validated' = Append(validated, Head(iter))
            /\ res' = IF IsValid(element_schema, ppjo) THEN Append(res, ppjo) ELSE res
            /\ UNCHANGED <<pc, returned, raised>>

\* ------------------------------------------------------------------ query_lbgpt
NoneList == [none |-> TRUE, items |-> <<>>]
GivenList(items) == [none |-> FALSE, items |-> items]

\* response[0].choices[0].message.content for a prompt
Content(prompt) == [text |-> "content", prompt |-> prompt, index |-> -1]
\* f"Error processing prompt {i}"
ErrorMarker(n) == [text |-> "Error processing prompt", prompt |-> "", index |-> n]
ClientError == [text |-> "Error initializing GPT client", prompt |-> "", index |-> -1]

\* The prompts the loop runs over: [""] when user_prompts is None.
Prompts == IF user_prompts.none THEN <<"">> ELSE user_prompts.items

\* From the default of user_prompts to the start of the loop: the client is
\* built (on failure one error string per prompt is returned), and the
\* assertion on the lengths of image_urls and user_prompts is run.
QuerySetup ==
  /\ qpc = "call"
  /\ UNCHANGED <<parsingVars, user_prompts, image_urls, client_ok, failures, i>>
  /\ IF ~client_ok
       THEN /\ responses' = [n \in 1..Len(Prompts) |-> ClientError]
            /\ qpc' = "done"
            /\ UNCHANGED qraised
     ELSE IF ~image_urls.none /\ image_urls.items # <<>>
             /\ Len(Prompts) # Len(image_urls.items)
       THEN /\ qraised' = "AssertionError"
            /\ qpc' = "done"
            /\ UNCHANGED responses
     ELSE /\ qpc' = "loop"
          /\ UNCHANGED <<responses, qraised>>

\* Mutant of QueryPrompt: there is no try/except around the request, so that
\* a failing prompt ends the call with its exception.
QueryPromptUnguarded ==
  /\ qpc = "loop"
  /\ i < Len(Prompts)
  /\ \E ok \in BOOLEAN :
       IF ok
         THEN /\ responses' = Append(responses, Content(Prompts[i + 1]))
              /\ i' = i + 1
              /\ UNCHANGED <<failures, qpc, qraised>>
         ELSE /\ failures' = failures \cup {i}
              /\ qraised' = "Exception"
              /\ qpc' = "done"
              /\ UNCHANGED <<responses, i>>
  /\ UNCHANGED <<parsingVars, user_prompts, image_urls, client_ok>>

\* One turn of the loop over user_prompts: the try block either appends the
\* content of the response or raises, and the except block appends the marker.
QueryPrompt ==
  /\ qpc = "loop"
  /\ i < Len(Prompts)
  /\ \E ok \in BOOLEAN :
       /\ responses' = Append(responses,
                              IF ok THEN Content(Prompts[i + 1]) ELSE ErrorMarker(i))
       /\ failures' = IF ok THEN failures ELSE failures \cup {i}
  /\ i' = i + 1
  /\ UNCHANGED <<parsingVars, user_prompts, image_urls, client_ok, qpc, qraised>>

\* return responses
QueryReturn ==
  /\ qpc = "loop"
  /\ i = Len(Prompts)
  /\ qpc' = "done"
  /\ UNCHANGED <<parsingVars, user_prompts, image_urls, client_ok, i, responses,
                 failures, qraised>>

\* ------------------------------------------------------------------ specifications
ParsingIdle ==
  /\ response = OtherResponse
  /\ response_schema = NoSchema
  /\ element_schema = NoSchema
  /\ raise_exception_on_irregular_finish = FALSE
  /\ pc = "idle"
  /\ txt = <<>>
  /\ literals = <<>>

ParsingFresh ==
  /\ fuzzy_parsed_object = NoneValue
  /\ iter = <<>>
  /\ yielded = <<>>
  /\ validated = <<>>
  /\ res = <<>>
  /\ returned = Pending
  /\ raised = ""
  /\ calls = <<>>

QueryIdle ==
  /\ user_prompts = NoneList
  /\ image_urls = NoneList
  /\ client_ok = TRUE
  /\ qpc = "idle"
  /\ i = 0
  /\ responses = <<>>
  /\ failures = {}
  /\ qraised = ""

\* The responses handed to response_parsing, each with the literals written
\* into its text. The content of a completion that did not finish with "stop"
\* is cut short or whole.
Call(resp, lits) == [response |-> resp, lits |-> lits]
Responses ==
  {Call(StrResponse(inp.text), inp.lits) : inp \in ResponseTexts}
  \cup {Call(ChatCompletion("stop", inp.text), inp.lits) : inp \in ResponseTexts}
  \cup {Call(ChatCompletion(f, s), <<>>) :
          f \in {"length", "content_filter"}, s \in TokenSeqs(MaxJunk)}
  \cup {Call(ChatCompletion(f, Dumps(t)), LitsOf(t)) :
          f \in {"length", "content_filter"}, t \in ValuesUpTo(MaxNodes - 1)}
  \cup {Call(OtherResponse, <<>>)}

\* A call of response_parsing.
Init ==
  /\ \E call \in Responses :
       /\ response = call.response
       /\ literals = call.lits
  /\ response_schema \in Schemas \cup {NoSchema}
  /\ element_schema \in Schemas \cup {NoSchema}
  /\ raise_exception_on_irregular_finish \in BOOLEAN
  /\ pc = "call"
  /\ txt = <<>>
  /\ ParsingFresh
  /\ QueryIdle

Next ==
  \/ Normalize
  \/ StrictDecode
  \/ Fallback
  \/ SelectMode
  \/ FirstMatchStep
  \/ AllMatchesStep

Spec == Init /\ [][Next]_vars

\* A call of fuzzy_parse_json on its own; pc = "schemas" is its return.
InitFuzzy ==
  /\ \/ \E s \in TokenSeqs(MaxLen) :
          /\ txt = s
          /\ literals = <<>>
     \/ \E pre \in Before, post \in After, t \in Values :
          /\ txt = pre \o Dumps(t) \o post
          /\ literals = LitsOf(t)
     \/ \E pre \in Before, mid \in Between, post \in After :
        \E t1, t2 \in Literals(MaxNodes - 1) :
          /\ txt = pre \o Dumps(t1) \o mid \o Dumps(t2) \o post
          /\ literals = <<t1, t2>>
  /\ response = OtherResponse
  /\ response_schema = NoSchema
  /\ element_schema = NoSchema
  /\ raise_exception_on_irregular_finish = FALSE
  /\ pc = "loads"
  /\ ParsingFresh
  /\ QueryIdle

NextFuzzy ==
  \/ StrictDecode
  \/ Fallback

SpecFuzzy == InitFuzzy /\ [][NextFuzzy]_vars

PromptLists == UNION {[1..n -> {"p", "q"}] : n \in 0..MaxPrompts}

\* A call of query_lbgpt.
InitQuery ==
  /\ user_prompts \in {NoneList} \cup {GivenList(ps) : ps \in PromptLists}
  /\ image_urls \in {NoneList} \cup {GivenList([n \in 1..m |-> "u"]) : m \in 0..MaxPrompts}
  /\ client_ok \in BOOLEAN
  /\ qpc = "call"
  /\ i = 0
  /\ responses = <<>>
  /\ failures = {}
  /\ qraised = ""
  /\ ParsingIdle
  /\ ParsingFresh

NextQuery ==
  \/ QuerySetup
  \/ QueryPrompt
  \/ QueryReturn

SpecQuery == InitQuery /\ [][NextQuery]_vars

\* ------------------------------------------------------------------ properties
\* The paths of all the nodes of a value.
RECURSIVE NodePaths(_)
NodePaths(d) ==
  {<<>>} \cup UNION {{<<n>> \o p : p \in NodePaths(d.c[n])} : n \in 1..Len(d.c)}

\* p comes before q in pre-order: p is a proper prefix of q (an ancestor), or
\* at the first index where they differ p takes the earlier child.
PathBefore(p, q) ==
  \E n \in 0..Len(p) :
    /\ n <= Len(q)
    /\ \A m \in 1..n : p[m] = q[m]
    /\ \/ n = Len(p) /\ n < Len(q)
       \/ n < Len(p) /\ n < Len(q) /\ p[n + 1] < q[n + 1]

RECURSIVE SortPaths(_)
SortPaths(S) ==
  IF S = {} THEN <<>>
  ELSE LET first == CHOOSE p \in S : \A q \in S : p = q \/ PathBefore(p, q) IN
       <<first>> \o SortPaths(S \ {first})

\* The container nodes of a value, each once, in pre-order.
PreOrderContainers(d) ==
  SortPaths({p \in NodePaths(d) : IsContainer(NodeAt(d, p))})

\* The value a text decodes to: the strict decode when the text is strict
\* JSON, else the first literal of the text.
Decoded(text) ==
  IF JsonLoads(text).ok THEN JsonLoads(text) ELSE ParseJsObject(text)

BothSchemas == response_schema # NoSchema /\ element_schema # NoSchema
\* The call is over and its text was decoded without an error.
DoneAfterParse == pc = "done" /\ calls # <<>> /\ raised # UnparsableResponse
IsIrregular == response.kind = "ChatCompletion" /\ response.finish_reason # "stop"
HasText == response.kind = "str" \/ (response.kind = "ChatCompletion" /\ ~IsIrregular)
ValueB(n) == Dict(<<"b">>, <<Num(n)>>)

\* C1: with both schemas set, every call ends with the conflicting-schema
\* error, whatever the response, with no node yielded or validated.
C1_ConflictAlwaysRaised ==
  (pc = "done" /\ BothSchemas) =>
    /\ raised = ConflictingSchemaSpecification
    /\ returned = Pending
    /\ yielded = <<>>
    /\ validated = <<>>

\* C2: in first-match mode the call returns the first container node in
\* pre-order that the validator accepts, having validated exactly the nodes up
\* to it, and None when no container is accepted.
C2_FirstMatch ==
  (DoneAfterParse /\ response_schema # NoSchema /\ element_schema = NoSchema) =>
    LET order == PreOrderContainers(fuzzy_parsed_object)
        hits == {n \in 1..Len(order) :
                   IsValid(response_schema, NodeAt(fuzzy_parsed_object, order[n]))}
    IN /\ raised = ""
       /\ IF hits = {}
            THEN returned = ReturnNone /\ validated = order
            ELSE LET n == CHOOSE h \in hits : \A g \in hits : h <= g IN
                 /\ returned = ReturnValue(NodeAt(fuzzy_parsed_object, order[n]))
                 /\ validated = SubSeq(order, 1, n)

\* {"a": {"b": 1}, "c": [{"b": 2}]} under the schema that requires an integer
\* b: {"b": 1} is returned and the two containers after it are not validated.
C2_Witness ==
  /\ pc = "done"
  /\ response_schema = SchemaB
  /\ element_schema = NoSchema
  /\ fuzzy_parsed_object = ExampleValue
  /\ returned = ReturnValue(ValueB("1"))
  /\ validated = <<<<>>, <<1>>>>
  /\ iter = <<<<2>>, <<2, 1>>>>

\* C3: in all-matches mode the call returns the list of the container nodes
\* the validator accepts, one entry per node, in pre-order; the list is empty,
\* not None, when none is accepted.
C3_AllMatches ==
  (DoneAfterParse /\ response_schema = NoSchema /\ element_schema # NoSchema) =>
    LET order == PreOrderContainers(fuzzy_parsed_object)
        Accepted(p) == IsValid(element_schema, NodeAt(fuzzy_parsed_object, p))
        hits == SelectSeq(order, Accepted)
    IN /\ raised = ""
       /\ validated = order
       /\ returned = ReturnList([n \in 1..Len(hits) |-> NodeAt(fuzzy_parsed_object, hits[n])])

\* [[], {"b": 1}, {"b": "a"}, [{"b": 1}]]: the two nodes {"b": 1} are both
\* returned, in order.
C3_Witness ==
  /\ pc = "done"
  /\ response_schema = NoSchema
  /\ element_schema = SchemaB
  /\ fuzzy_parsed_object = ExampleList
  /\ returned = ReturnList(<<ValueB("1"), ValueB("1")>>)

\* C4: without a schema the call returns the whole decoded value, and no node
\* is yielded or validated.
C4_NoSchemaWhole ==
  (DoneAfterParse /\ response_schema = NoSchema /\ element_schema = NoSchema) =>
    /\ raised = ""
    /\ returned = ReturnValue(Decoded(txt).val)
    /\ yielded = <<>>
    /\ validated = <<>>

\* A scalar is returned as it is.
C4_Witness ==
  /\ pc = "done"
  /\ response_schema = NoSchema
  /\ element_schema = NoSchema
  /\ txt = <<"1">>
  /\ returned = ReturnValue(Num("1"))

\* C5: fuzzy_parse_json calls json.loads first and parse_js_object at most
\* once, only after json.loads has failed; a strict JSON text is returned as
\* its strict decode without the fallback being called.
C5_StrictFirst ==
  /\ calls \in {<<>>, <<"json.loads">>, <<"json.loads", "parse_js_object">>}
  /\ Len(calls) = 2 => ~JsonLoads(txt).ok
  /\ (pc # "loads" /\ JsonLoads(txt).ok) =>
       /\ pc = "schemas"
       /\ calls = <<"json.loads">>
       /\ fuzzy_parsed_object = JsonLoads(txt).val
  /\ (pc # "loads" /\ Len(literals) = 1 /\ txt = Dumps(literals[1])) =>
       /\ calls = <<"json.loads">>
       /\ fuzzy_parsed_object = literals[1]

C5_Witness ==
  /\ pc = "schemas"
  /\ txt = Dumps(ExampleValue)
  /\ fuzzy_parsed_object = ExampleValue
  /\ calls = <<"json.loads">>

\* C6: a text with one or more literals written into it decodes to the first
\* of them, never to a later one.
C6_FirstLiteral ==
  (pc \notin {"loads", "except"} /\ literals # <<>>) =>
    /\ pc = "schemas"
    /\ fuzzy_parsed_object = literals[1]

\* "w , w : [] w {"a": 1}": the later, larger literal is not returned.
C6_Witness ==
  /\ pc = "schemas"
  /\ calls = <<"json.loads", "parse_js_object">>
  /\ txt = <<"w", ",", "w", ":", "[", "]", "w", "{", "a", ":", "1", "}">>
  /\ literals = <<List(<<>>), Dict(<<"a">>, <<Num("1")>>)>>
  /\ fuzzy_parsed_object = List(<<>>)

\* C7: a completion that did not finish with "stop" raises the
\* irregular-finish error when the flag is set and returns None when it is
\* not, in both cases without decoding a text or validating a node; the
\* content of a completion that finished with "stop" is handed to the decoder.
C7_IrregularFinish ==
  /\ (pc = "done" /\ IsIrregular) =>
       /\ IF raise_exception_on_irregular_finish
            THEN raised = IrregularFinish /\ returned = Pending
            ELSE raised = "" /\ returned = ReturnNone
       /\ calls = <<>>
       /\ yielded = <<>>
       /\ validated = <<>>
  /\ (pc # "call" /\ response.kind = "ChatCompletion" /\ ~IsIrregular) =>
       /\ txt = response.content
       /\ pc # "loads" => calls # <<>> /\ calls[1] = "json.loads"

\* A cut-short completion whose content is a literal, a schema given, the
\* flag not set: None is returned.
C7_Witness ==
  /\ pc = "done"
  /\ IsIrregular
  /\ ~raise_exception_on_irregular_finish
  /\ response.content = <<"{", "b", ":", "1", "}">>
  /\ response_schema = SchemaB
  /\ returned = ReturnNone

\* C8: when the try block of exactly one prompt raises, query_lbgpt returns
\* one entry per prompt, in prompt order: the error marker at the position of
\* the failed prompt and the content of the response everywhere else.
C8_FailureIsolated ==
  (qpc = "done" /\ Cardinality(failures) = 1) =>
    /\ qraised = ""
    /\ Len(responses) = Len(Prompts)
    /\ \A n \in 1..Len(Prompts) :
         responses[n] = IF n - 1 \in failures THEN ErrorMarker(n - 1)
                                              ELSE Content(Prompts[n])

C8_Witness ==
  /\ qpc = "done"
  /\ user_prompts = GivenList(<<"p", "q", "p">>)
  /\ failures = {1}
  /\ responses = <<Content("p"), ErrorMarker(1), Content("p")>>

\* C9: a response of an unsupported type raises the unsupported-type error
\* before anything is decoded or validated; a text that neither decoder
\* accepts raises the parse error after one call of each decoder; and None is
\* returned only for the lenient irregular finish or a first-match traversal
\* without a match.
C9_NoSilentFailure ==
  /\ (pc = "done" /\ response.kind = "other") =>
       /\ raised = UnsupportedResponseType
       /\ returned = Pending
       /\ calls = <<>>
       /\ validated = <<>>
  /\ (pc = "done" /\ HasText /\ ~Decoded(response.content).ok) =>
       /\ raised = UnparsableResponse
       /\ returned = Pending
       /\ calls = <<"json.loads", "parse_js_object">>
       /\ validated = <<>>
  /\ pc = "done" => (raised = "" <=> returned # Pending)
  /\ (pc = "done" /\ returned = ReturnNone) =>
       \/ IsIrregular /\ ~raise_exception_on_irregular_finish
       \/ /\ response_schema # NoSchema
          /\ Decoded(response.content).ok
          /\ validated = PreOrderContainers(Decoded(response.content).val)

\* "w : 1 w", prose without a literal: both decoders fail on it.
C9_Witness ==
  /\ pc = "done"
  /\ response = StrResponse(<<"w", ":", "1", "w">>)
  /\ raised = UnparsableResponse
  /\ calls = <<"json.loads", "parse_js_object">>

\* C10: the nodes yielded so far followed by the nodes still to be yielded are
\* the container nodes of the decoded value, each once, in pre-order; no
\* scalar is among them; and the value is the one that was decoded.
C10_PreOrder ==
  (pc \in {"first", "all"} \/ (DoneAfterParse /\ raised = "" /\ ~BothSchemas
                                /\ (response_schema # NoSchema \/ element_schema # NoSchema))) =>
    /\ yielded \o iter = PreOrderContainers(fuzzy_parsed_object)
    /\ \A n \in 1..Len(yielded) : IsContainer(NodeAt(fuzzy_parsed_object, yielded[n]))
    /\ fuzzy_parsed_object = Decoded(txt).val

\* [[], {"b": 1}, {"b": "a"}, [{"b": 1}]] under the schema {}, which accepts
\* scalars too: the six containers are yielded, the three scalars are not.
C10_Witness ==
  /\ pc = "done"
  /\ element_schema = SchemaAny
  /\ fuzzy_parsed_object = ExampleList
  /\ yielded = <<<<>>, <<1>>, <<2>>, <<3>>, <<4>>, <<4, 1>>>>
  /\ Len(returned.items) = 6
====
